---- MODULE Spec2Model ----
(***************************************************************************)
(* A model of WifiCafeSimulation.py: the WiFiUser entity, the              *)
(* WiFiCafeSimulation stepper with its arrival and departure probability   *)
(* functions, calibration, the animation-driven run and the accuracy       *)
(* validation of the main program.                                         *)
(*                                                                         *)
(* Units.  Python floats are kept as scaled integers:                     *)
(*   positions        in tenths of a metre     (10 m      = PosMax)        *)
(*   signal strength  in thousandths           (1.0       = SigOne)        *)
(*   probabilities    in hundred-thousandths   (1.0       = ProbOne)       *)
(* session_duration is kept as its integer part: for the integer elapsed   *)
(* time e and a real s >= 0, e > s holds exactly when e > floor(s).       *)
(***************************************************************************)
EXTENDS Integers, Sequences, FiniteSets, TLC

VARIABLES
    pc,                 \* where the main program is: "ready", "running", "finished", "validated"
    cafe_capacity,      \* self.cafe_capacity
    users,              \* self.users, a sequence of WiFiUser records
    time_minutes,       \* self.time_minutes
    connection_log,     \* self.connection_log, a sequence of session records
    historical_pattern, \* self.historical_pattern, values in key order (key i at position i+1)
    frame,              \* the next frame FuncAnimation hands to animate
    duration_minutes,   \* the argument of run_simulation
    admitted,           \* number of WiFiUser objects constructed so far
    accuracy,           \* outcome of the accuracy validation of the main program
    probe               \* last evaluation of a probability function on chosen inputs

vars == <<pc, cafe_capacity, users, time_minutes, connection_log,
          historical_pattern, frame, duration_minutes, admitted, accuracy, probe>>

simVars == <<cafe_capacity, users, time_minutes, connection_log,
             historical_pattern, admitted>>

-----------------------------------------------------------------------------
(* Bounds of the model *)

MaxAdmitted == 2     \* arrivals are only drawn while this many users were admitted in all
MaxTime == 2         \* steps explored by Spec
MaxCapacity == 2     \* largest cafe_capacity argument given to the constructor

-----------------------------------------------------------------------------
(* Units and program constants *)

PosMax == 10 * 10            \* 10 metres, in tenths
PosRouter == 5 * 10          \* router_x = router_y = 5
StepLen == 5                 \* 0.5 metres, in tenths
SigOne == 10 * 100           \* signal strength 1.0
SigMin == 100                \* signal strength 0.1
ProbOne == 100 * 1000        \* probability 1.0

Frames == 257                \* frames=257 of FuncAnimation
IndexCap == 7                \* min(7, t // 15)
IntervalLen == 15
FallbackTarget == 20

Min(a, b) == IF a < b THEN a ELSE b
Max(a, b) == IF a > b THEN a ELSE b
Abs(a) == IF a < 0 THEN -a ELSE a

RECURSIVE SeqSum(_)
SeqSum(s) == IF s = <<>> THEN 0 ELSE Head(s) + SeqSum(Tail(s))

RECURSIVE SeqMax(_)
SeqMax(s) == IF Len(s) = 1 THEN s[1] ELSE Max(Head(s), SeqMax(Tail(s)))

\* integer part of the square root
ISqrt(n) == CHOOSE r \in 0..1000 : r * r <= n /\ (r + 1) * (r + 1) > n

-----------------------------------------------------------------------------
(* WiFiUser *)

\* max(0.1, 1 - distance / 10), distance = sqrt((x-5)^2 + (y-5)^2)
CalculateSignalStrength(x, y) ==
    LET d2 == (x - PosRouter) * (x - PosRouter) + (y - PosRouter) * (y - PosRouter)
    IN  Max(SigMin, SigOne - ISqrt(100 * d2))

\* WiFiUser.__init__ with the two draws made there
NewUser(x, y, user_id, arrival_time, session_duration, movement_pattern) ==
    [x |-> x, y |-> y, user_id |-> user_id, arrival_time |-> arrival_time,
     session_duration |-> session_duration,
     movement_pattern |-> movement_pattern,
     signal_strength |-> CalculateSignalStrength(x, y)]

Deltas == {-1, 0, 1}

\* a move() that forgets the clamp to the cafe area
MoveNoClamp(u, triggered, dx, dy) ==
    IF u.movement_pattern = "mobile" /\ triggered
    THEN LET nx == u.x + dx * StepLen
             ny == u.y + dy * StepLen
         IN  [u EXCEPT !.x = nx, !.y = ny,
                       !.signal_strength = CalculateSignalStrength(nx, ny)]
    ELSE u

\* a move() that walks whatever the movement pattern is
MoveAnyPattern(u, triggered, dx, dy) ==
    IF triggered
    THEN LET nx == Max(0, Min(PosMax, u.x + dx * StepLen))
             ny == Max(0, Min(PosMax, u.y + dy * StepLen))
         IN  [u EXCEPT !.x = nx, !.y = ny,
                       !.signal_strength = CalculateSignalStrength(nx, ny)]
    ELSE u

\* WiFiUser.move: triggered is random.random() < 0.3, dx and dy the two choices
Move(u, triggered, dx, dy) ==
    IF u.movement_pattern = "mobile" /\ triggered
    THEN LET nx == Max(0, Min(PosMax, u.x + dx * StepLen))
             ny == Max(0, Min(PosMax, u.y + dy * StepLen))
         IN  [u EXCEPT !.x = nx, !.y = ny,
                       !.signal_strength = CalculateSignalStrength(nx, ny)]
    ELSE u

\* every outcome of one move() call
MoveResults(u) ==
    {Move(u, tr, dx, dy) : tr \in BOOLEAN, dx \in Deltas, dy \in Deltas}

-----------------------------------------------------------------------------
(* Historical pattern and calibration *)

DefaultPattern ==
    <<22, 28, 29, 24, 40, 31, 39, 32, 39, 43, 49, 55, 52, 65, 70, 65, 58>>

\* observed sequences handed to the constructor or to calibrate_parameters
MainRealData == DefaultPattern          \* the 17 points the main program passes
RealDataInputs ==
    { MainRealData,
      <<10, 20, 30, 40, 50, 60, 70, 80, 90>>,
      <<0, 0, 0, 0, 0, 0, 0, 0, 0>>,
      <<2, 1, 0, 2, 1, 0, 2, 1, 0>>,
      <<0, 1, 2, 0, 1, 2, 0, 1, 2>>,
      <<1, 2, 3, 4, 5, 6, 7, 8>>,
      <<5, 5, 5>> }

\* a calibration that accepts a sequence of any length
CalibratedPatternAnyLength(pattern, real_data_hosts) == real_data_hosts

\* the pattern calibrate_parameters leaves behind
CalibratedPattern(pattern, real_data_hosts) ==
    IF Len(real_data_hosts) = 9 THEN real_data_hosts ELSE pattern

\* a calibration that keeps the capacity it found
CalibratedCapacityKept(capacity, pattern) == capacity

\* int(peak_hosts * 1.2) over the pattern in force after the update
CalibratedCapacity(capacity, pattern) == (SeqMax(pattern) * 12) \div 10

\* calibrate_parameters as a state change
CalibrateParameters(real_data_hosts) ==
    LET p == CalibratedPattern(historical_pattern, real_data_hosts)
    IN  /\ historical_pattern' = p
        /\ cafe_capacity' = CalibratedCapacity(cafe_capacity, p)

-----------------------------------------------------------------------------
(* Probability model *)

NoiseValues == {-2 * ProbOne, -5000, 0, 5000, 2 * ProbOne}

\* a target read at the uncapped interval index
TargetUsersUncapped(pattern, t) ==
    LET interval_idx == t \div IntervalLen
    IN  IF interval_idx < Len(pattern) THEN pattern[interval_idx + 1]
        ELSE FallbackTarget

\* list(self.historical_pattern.values())[interval_idx] if interval_idx < len(...) else 20
TargetUsers(pattern, t) ==
    LET interval_idx == Min(IndexCap, t \div IntervalLen)
    IN  IF interval_idx < Len(pattern) THEN pattern[interval_idx + 1]
        ELSE FallbackTarget

\* a peak-time multiplier driven by the fractional hour 11 + t / 60
ArrivalBaseFractionalHour(pattern, nUsers, t) ==
    LET user_deficit == TargetUsers(pattern, t) - nUsers
        base_prob == IF user_deficit > 0
                     THEN Min(80000, user_deficit * 10000)
                     ELSE 5000
    IN  IF t >= 30 /\ t <= 90 THEN (base_prob * 15) \div 10
        ELSE IF t > 90 /\ t <= 120 THEN (base_prob * 7) \div 10
        ELSE base_prob

\* base_prob of arrival_probability after the peak-time multiplier
ArrivalBase(pattern, nUsers, t) ==
    LET user_deficit == TargetUsers(pattern, t) - nUsers
        base_prob == IF user_deficit > 0
                     THEN Min(80000, user_deficit * 10000)
                     ELSE 5000
        hour == 11 + (t \div 60)
    IN  IF 2 * hour >= 23 /\ 2 * hour <= 25 THEN (base_prob * 15) \div 10
        ELSE IF 2 * hour > 25 /\ hour <= 13 THEN (base_prob * 7) \div 10
        ELSE base_prob

\* an arrival probability returned without the clamp
ArrivalProbabilityNoClamp(pattern, nUsers, t, noise) ==
    ArrivalBase(pattern, nUsers, t) + noise

\* arrival_probability, with noise the draw of np.random.normal(0, 0.05)
ArrivalProbability(pattern, nUsers, t, noise) ==
    Max(0, Min(ProbOne, ArrivalBase(pattern, nUsers, t) + noise))

\* a departure probability whose surplus adjustment is not capped at 0.3
DepartureProbabilityNoSurplusCap(pattern, nUsers, t, user) ==
    LET user_surplus == nUsers - TargetUsers(pattern, t)
        duration_factor == t - user.arrival_time
        base0 == IF duration_factor > user.session_duration THEN 40000 ELSE 1000
        base_prob == IF user_surplus > 0
                     THEN base0 + user_surplus * 5000
                     ELSE base0
        signal_factor == (SigOne - user.signal_strength) * 5
    IN  Min(ProbOne, base_prob + signal_factor)

\* departure_probability
DepartureProbability(pattern, nUsers, t, user) ==
    LET user_surplus == nUsers - TargetUsers(pattern, t)
        duration_factor == t - user.arrival_time
        base0 == IF duration_factor > user.session_duration THEN 40000 ELSE 1000
        base_prob == IF user_surplus > 0
                     THEN base0 + Min(30000, user_surplus * 5000)
                     ELSE base0
        signal_factor == (SigOne - user.signal_strength) * 5
    IN  Min(ProbOne, base_prob + signal_factor)

-----------------------------------------------------------------------------
(* Simulation stepper *)

\* draws made when a user arrives: np.random.uniform(0, 10) twice, and the
\* two draws of WiFiUser.__init__
InitialPositions == {<<0, 98>>}
SessionDurations == {0, 45}
MovementPatterns == {"stationary", "mobile"}

NewUserDraws(user_id, t) ==
    {NewUser(p[1], p[2], user_id, t, sd, mp) :
        p \in InitialPositions, sd \in SessionDurations, mp \in MovementPatterns}

\* outcomes of np.random.poisson(prob * 3): 0 for certain when prob is 0; the
\* draws explored are those that admit no more than budget users
ArrivalCounts(prob, budget) ==
    {a \in 0..Max(0, budget) : prob = 0 => a = 0}

\* an admission that ignores the room left below the capacity
AddNewUsersNoRoom(us, capacity, log, pattern, t, budget) ==
    IF Len(us) < capacity
    THEN UNION { UNION { {us \o nw : nw \in [1..a -> NewUserDraws(Len(log), t)]} :
                     a \in ArrivalCounts(ArrivalProbability(pattern, Len(us), t, noise),
                                         budget) } :
                 noise \in NoiseValues }
    ELSE {us}

\* add_new_users: every population it can leave behind
AddNewUsers(us, capacity, log, pattern, t, budget) ==
    IF Len(us) < capacity
    THEN LET room == capacity - Len(us)
         IN  UNION { UNION { {us \o nw :
                                nw \in [1..Min(a, room) -> NewUserDraws(Len(log), t)]} :
                         a \in ArrivalCounts(ArrivalProbability(pattern, Len(us), t, noise),
                                             budget) } :
                     noise \in NoiseValues }
    ELSE {us}

\* update_users: every outcome of calling move() on each user in turn
RECURSIVE UpdateUsers(_)
UpdateUsers(us) ==
    IF us = <<>> THEN {<<>>}
    ELSE {<<h>> \o rest : h \in MoveResults(Head(us)), rest \in UpdateUsers(Tail(us))}

\* the sets of users remove_users can mark: random.random() < p can come out
\* true when p > 0 and false when p < 1
DepartureMarks(us, pattern, t) ==
    {m \in SUBSET (1..Len(us)) :
        \A i \in 1..Len(us) :
            LET p == DepartureProbability(pattern, Len(us), t, us[i])
            IN  (i \in m => p > 0) /\ (i \notin m => p < ProbOne)}

\* a session record whose duration counts the departure minute as well
SessionDataOffByOne(user, t) ==
    [user_id |-> user.user_id, arrival_time |-> user.arrival_time,
     departure_time |-> t, duration |-> t - user.arrival_time + 1,
     avg_signal_strength |-> user.signal_strength]

\* session_data of remove_users
SessionData(user, t) ==
    [user_id |-> user.user_id, arrival_time |-> user.arrival_time,
     departure_time |-> t, duration |-> t - user.arrival_time,
     avg_signal_strength |-> user.signal_strength]

RECURSIVE PickFrom(_, _, _)
PickFrom(us, keep, i) ==
    IF i > Len(us) THEN <<>>
    ELSE (IF i \in keep THEN <<us[i]>> ELSE <<>>) \o PickFrom(us, keep, i + 1)

\* a removal that leaves the marked users in the active collection
RemainingUsersAll(us, marks) == us

\* self.users after the marked users are removed
RemainingUsers(us, marks) == PickFrom(us, (1..Len(us)) \ marks, 1)

RECURSIVE LogFrom(_, _, _, _)
LogFrom(us, marks, t, i) ==
    IF i > Len(us) THEN <<>>
    ELSE (IF i \in marks THEN <<SessionData(us[i], t)>> ELSE <<>>)
         \o LogFrom(us, marks, t, i + 1)

\* a log that is rewritten with the departures first
LoggedSessionsPrepended(log, us, marks, t) == LogFrom(us, marks, t, 1) \o log

\* self.connection_log after the marked users are logged
LoggedSessions(log, us, marks, t) == log \o LogFrom(us, marks, t, 1)

\* a step that advances the clock before the departures are logged
StepWithClockFirst(us1, us2, marks) ==
    /\ users' = RemainingUsers(us2, marks)
    /\ connection_log' = LoggedSessions(connection_log, us2, marks,
                                        time_minutes + 1)
    /\ time_minutes' = time_minutes + 1
    /\ admitted' = admitted + (Len(us1) - Len(users))
    /\ UNCHANGED <<cafe_capacity, historical_pattern>>

\* a step that advances the clock by two minutes
StepWithTwoMinutes(us1, us2, marks) ==
    /\ users' = RemainingUsers(us2, marks)
    /\ connection_log' = LoggedSessions(connection_log, us2, marks, time_minutes)
    /\ time_minutes' = time_minutes + 2
    /\ admitted' = admitted + (Len(us1) - Len(users))
    /\ UNCHANGED <<cafe_capacity, historical_pattern>>

\* the state step() leaves when add_new_users left the population us1,
\* update_users left us2 and remove_users marked the users at marks
StepWith(us1, us2, marks) ==
    /\ users' = RemainingUsers(us2, marks)
    /\ connection_log' = LoggedSessions(connection_log, us2, marks, time_minutes)
    /\ time_minutes' = time_minutes + 1
    /\ admitted' = admitted + (Len(us1) - Len(users))
    /\ UNCHANGED <<cafe_capacity, historical_pattern>>

\* step(): add_new_users, update_users, remove_users, time_minutes += 1
Step ==
    \E us1 \in AddNewUsers(users, cafe_capacity, connection_log,
                           historical_pattern, time_minutes,
                           MaxAdmitted - admitted) :
    \E us2 \in UpdateUsers(us1) :
    \E marks \in DepartureMarks(us2, historical_pattern, time_minutes) :
        StepWith(us1, us2, marks)

-----------------------------------------------------------------------------
(* The main program *)

CapacityInputs == -1..MaxCapacity
DurationInputs == {120}

NoAccuracy == [kind |-> "none", num |-> 0, den |-> 1]
NoProbe == [fn |-> "none"]

\* WiFiCafeSimulation.__init__(cafe_capacity, real_data)
Constructed(capacity, given, real_data) ==
    LET p == IF given THEN CalibratedPattern(DefaultPattern, real_data)
             ELSE DefaultPattern
    IN  /\ historical_pattern = p
        /\ cafe_capacity = IF given THEN CalibratedCapacity(capacity, p) ELSE capacity
        /\ users = <<>>
        /\ time_minutes = 0
        /\ connection_log = <<>>
        /\ admitted = 0

Init ==
    /\ \E capacity \in CapacityInputs, given \in BOOLEAN, real_data \in RealDataInputs :
           Constructed(capacity, given, real_data)
    /\ pc = "ready"
    /\ frame = 0
    /\ duration_minutes = 0
    /\ accuracy = NoAccuracy
    /\ probe = NoProbe

\* calibrate_parameters(real_data) called on the constructed simulation,
\* before any step
CalibrateWith(real_data) ==
    /\ pc = "ready"
    /\ CalibrateParameters(real_data)
    /\ UNCHANGED <<pc, users, time_minutes, connection_log, frame,
                   duration_minutes, admitted, accuracy, probe>>

Calibrate == \E real_data \in RealDataInputs : CalibrateWith(real_data)

\* run_simulation(duration_minutes): builds the animation of 257 frames
RunSimulation ==
    /\ pc = "ready"
    /\ \E d \in DurationInputs : duration_minutes' = d
    /\ pc' = "running"
    /\ frame' = 0
    /\ UNCHANGED <<simVars, accuracy, probe>>

\* animate(frame), called by the animation for frames 0 .. 256 in order
Animate ==
    /\ pc = "running"
    /\ frame < Frames
    /\ IF frame > 0 THEN Step ELSE UNCHANGED simVars
    /\ frame' = frame + 1
    /\ UNCHANGED <<pc, duration_minutes, accuracy, probe>>

\* Animate while the explored time stays within MaxTime
BoundedAnimate == time_minutes < MaxTime /\ Animate

\* plt.show() returns when the figure window is closed
CloseWindow ==
    /\ pc = "running"
    /\ pc' = "finished"
    /\ UNCHANGED <<simVars, frame, duration_minutes, accuracy, probe>>

Boundaries == {0, 15, 30, 45, 60, 75, 90, 105}      \* range(0, 120, 15)

\* active_at_time for boundary i
ActiveAtTime(log, i) ==
    Cardinality({k \in 1..Len(log) :
                    log[k].arrival_time <= i /\ i <= log[k].departure_time})

RECURSIVE SumOver(_, _)
SumOver(log, S) ==
    IF S = {} THEN 0
    ELSE LET i == CHOOSE j \in S : TRUE
         IN  ActiveAtTime(log, i) + SumOver(log, S \ {i})

\* sum(interval_counts); sim_average is this over len(interval_counts) = 8
IntervalCountSum(log) == SumOver(log, Boundaries)

\* an accuracy block that does not test sim_average
AccuracyOfUnguarded(pattern, log) ==
    LET hs == SeqSum(pattern)
        hn == Len(pattern)
        ss == IntervalCountSum(log)
        nb == Cardinality(Boundaries)
    IN  IF log = <<>> THEN NoAccuracy
        ELSE IF hs = 0 THEN [kind |-> "neg_infinity", num |-> 0, den |-> 1]
        ELSE [kind |-> "value",
              num  |-> 100 * (nb * hs - Abs(nb * hs - ss * hn)),
              den  |-> nb * hs]

\* the accuracy block of the main program: hs / hn is np.mean(historical_values),
\* ss / 8 is sim_average; the value is num / den percent
AccuracyOf(pattern, log) ==
    LET hs == SeqSum(pattern)
        hn == Len(pattern)
        ss == IntervalCountSum(log)
        nb == Cardinality(Boundaries)
    IN  IF log = <<>> THEN NoAccuracy
        ELSE IF ~(ss > 0) THEN NoAccuracy
        ELSE IF hs = 0 THEN [kind |-> "neg_infinity", num |-> 0, den |-> 1]
        ELSE [kind |-> "value",
              num  |-> 100 * (nb * hs - Abs(nb * hs - ss * hn)),
              den  |-> nb * hs]

\* the validation that follows run_simulation in the main program
Validate ==
    /\ pc = "finished"
    /\ pc' = "validated"
    /\ accuracy' = AccuracyOf(historical_pattern, connection_log)
    /\ UNCHANGED <<simVars, frame, duration_minutes, probe>>

Next == Calibrate \/ RunSimulation \/ BoundedAnimate \/ CloseWindow \/ Validate

Spec == Init /\ [][Next]_vars

-----------------------------------------------------------------------------
(* A whole run: the simulation the main program would build with capacity 0, *)
(* whose population stays empty, followed through all the frames.            *)

RunInit ==
    /\ Constructed(0, FALSE, MainRealData)
    /\ pc = "ready"
    /\ frame = 0
    /\ duration_minutes = 0
    /\ accuracy = NoAccuracy
    /\ probe = NoProbe

RunNext == RunSimulation \/ Animate \/ CloseWindow \/ Validate

RunSpec == RunInit /\ [][RunNext]_vars

-----------------------------------------------------------------------------
(* The two probability functions on chosen inputs: the simulation is the one *)
(* the main program builds, and each action evaluates one function for a     *)
(* pattern, a population size, a time and the draws it makes.                *)

MainCapacity == 50

ProbePatterns ==
    { DefaultPattern,
      <<10, 20, 30, 40, 50, 60, 70, 80, 90>>,
      <<0, 0, 0, 0, 0, 0, 0, 0, 0>>,
      <<10000, 10000, 10000, 10000, 10000, 10000, 10000, 10000, 10000>> }
ProbePopulations == {0, 1, 22, 23, 35, 10000, 20000}
ProbeTimes == {0, 14, 15, 59, 60, 104, 105, 119, 120, 179, 180, 256}
ProbeCoordinates == {0, 50, 98}

\* users as add_new_users creates them and as move() leaves them
ProbeUsers(t) ==
    {NewUser(x, y, 0, a, sd, mp) :
        x \in ProbeCoordinates, y \in ProbeCoordinates,
        a \in {b \in {0, 100} : b <= t},
        sd \in SessionDurations, mp \in MovementPatterns}

ProbInit ==
    /\ Constructed(MainCapacity, TRUE, MainRealData)
    /\ pc = "ready"
    /\ frame = 0
    /\ duration_minutes = 0
    /\ accuracy = NoAccuracy
    /\ probe = NoProbe

ProbeArrival ==
    /\ probe = NoProbe
    /\ \E pattern \in ProbePatterns, n \in ProbePopulations,
          t \in ProbeTimes, noise \in NoiseValues :
           probe' = [fn |-> "arrival", pattern |-> pattern, nUsers |-> n, t |-> t,
                     noise |-> noise,
                     result |-> ArrivalProbability(pattern, n, t, noise)]
    /\ UNCHANGED <<pc, simVars, frame, duration_minutes, accuracy>>

ProbeDeparture ==
    /\ probe = NoProbe
    /\ \E pattern \in ProbePatterns, n \in ProbePopulations, t \in ProbeTimes :
       \E user \in ProbeUsers(t) :
           probe' = [fn |-> "departure", pattern |-> pattern, nUsers |-> n, t |-> t,
                     user |-> user,
                     result |-> DepartureProbability(pattern, n, t, user)]
    /\ UNCHANGED <<pc, simVars, frame, duration_minutes, accuracy>>

ProbNext == ProbeArrival \/ ProbeDeparture

ProbSpec == ProbInit /\ [][ProbNext]_vars

-----------------------------------------------------------------------------
(* The stepper with the intermediate values of each step() kept in probe:
   the users before the step, after add_new_users, after update_users, the
   users remove_users marked, and what departure_probability read for each *)

\* evaluations whose population shrinks with every user marked earlier
DepartureEvaluationsShrinking(us, pattern, t, marks) ==
    [i \in 1..Len(us) |->
        LET seen == Len(us) - Cardinality({j \in marks : j < i})
        IN  [current_users |-> seen,
             p |-> DepartureProbability(pattern, seen, t, us[i])]]

\* the loop of remove_users: len(self.users) as departure_probability reads
\* it for the i-th user, and the probability it returns
DepartureEvaluations(us, pattern, t, marks) ==
    [i \in 1..Len(us) |->
        [current_users |-> Len(us),
         p |-> DepartureProbability(pattern, Len(us), t, us[i])]]

TracedStep ==
    \E us1 \in AddNewUsers(users, cafe_capacity, connection_log,
                           historical_pattern, time_minutes,
                           MaxAdmitted - admitted) :
    \E us2 \in UpdateUsers(us1) :
    \E marks \in DepartureMarks(us2, historical_pattern, time_minutes) :
        /\ StepWith(us1, us2, marks)
        /\ probe' = [fn |-> "step", t |-> time_minutes, before |-> users,
                     added |-> us1, moved |-> us2, marks |-> marks,
                     evals |-> DepartureEvaluations(us2, historical_pattern,
                                                    time_minutes, marks)]

TracedAnimate ==
    /\ pc = "running"
    /\ frame < Frames
    /\ time_minutes < MaxTime
    /\ IF frame > 0 THEN TracedStep ELSE UNCHANGED <<simVars, probe>>
    /\ frame' = frame + 1
    /\ UNCHANGED <<pc, duration_minutes, accuracy>>

TraceNext == RunSimulation \/ TracedAnimate

TraceSpec == Init /\ [][TraceNext]_vars

-----------------------------------------------------------------------------
(* WiFiUser.move applied to users at chosen positions, with each outcome of
   its three draws *)

ProbeMove ==
    /\ probe = NoProbe
    /\ \E user \in ProbeUsers(100), triggered \in BOOLEAN,
          dx \in Deltas, dy \in Deltas :
           probe' = [fn |-> "move", user |-> user, triggered |-> triggered,
                     dx |-> dx, dy |-> dy,
                     result |-> Move(user, triggered, dx, dy)]
    /\ UNCHANGED <<pc, simVars, frame, duration_minutes, accuracy>>

MoveNext == ProbeMove

MoveSpec == ProbInit /\ [][MoveNext]_vars

-----------------------------------------------------------------------------
(* Properties *)

IsPrefix(a, b) == Len(a) <= Len(b) /\ SubSeq(b, 1, Len(a)) = a

SpecExample == <<10, 20, 30, 40, 50, 60, 70, 80, 90>>

\* C1, as stated: after any sequence of step() calls on a simulation built
\* with any capacity, the number of active clients is never greater than the
\* cafe capacity.
C1_PopulationWithinAnyCapacity ==
    time_minutes >= 1 => Len(users) <= cafe_capacity

\* C1, amended: on a simulation built with a capacity that is not negative,
\* the number of active clients is never greater than the cafe capacity.
C1_PopulationWithinCapacity ==
    cafe_capacity >= 0 => Len(users) <= cafe_capacity

\* a step has filled a cafe of capacity 1
C1_Witness ==
    time_minutes >= 1 /\ cafe_capacity = 1 /\ Len(users) = 1 /\ admitted >= 1

\* C2: no two clients ever created during a run, active or already in the
\* session log, share an id.
C2_UniqueIds ==
    /\ \A i, j \in 1..Len(users) :
           i # j => users[i].user_id # users[j].user_id
    /\ \A i, j \in 1..Len(connection_log) :
           i # j => connection_log[i].user_id # connection_log[j].user_id
    /\ \A i \in 1..Len(users) : \A j \in 1..Len(connection_log) :
           users[i].user_id # connection_log[j].user_id

\* C3: every session-log record has departure_time >= arrival_time and
\* duration = departure_time - arrival_time.
C3_LogRecordsConsistent ==
    \A k \in 1..Len(connection_log) :
        LET r == connection_log[k]
        IN  /\ r.departure_time >= r.arrival_time
            /\ r.duration = r.departure_time - r.arrival_time

\* a client that arrived in one minute and left in a later one is in the log
C3_Witness ==
    \E k \in 1..Len(connection_log) : connection_log[k].duration >= 1

\* C4, as stated: calibrating with a sequence whose length is not 9 leaves
\* the historical pattern and the cafe capacity as they were before the call.
C4_WrongLengthKeepsPatternAndCapacity ==
    [][\A d \in RealDataInputs :
          (Len(d) # 9 /\ CalibrateWith(d)) =>
              /\ historical_pattern' = historical_pattern
              /\ cafe_capacity' = cafe_capacity]_vars

\* C4, amended: calibrating with a sequence whose length is not 9 leaves the
\* historical pattern as it was and sets the cafe capacity to
\* floor(1.2 * max) of that pattern, whatever the capacity was before.
C4_WrongLengthKeepsPatternResetsCapacity ==
    [][\A d \in RealDataInputs :
          (Len(d) # 9 /\ CalibrateWith(d)) =>
              /\ historical_pattern' = historical_pattern
              /\ cafe_capacity' = (SeqMax(historical_pattern) * 6) \div 5]_vars

\* the default pattern is in force with the capacity calibration derives from it
C4_Witness ==
    /\ pc = "ready"
    /\ historical_pattern = DefaultPattern
    /\ cafe_capacity = 84

\* C5: calibrating with exactly 9 non-negative integers installs that sequence
\* as the pattern (the lookup at minute 0 gives its first element) and sets the
\* capacity to floor(1.2 * max of the sequence); [10,20,...,90] gives lookup 10
\* and capacity 108.
C5_NinePointCalibration ==
    [][\A d \in RealDataInputs :
          (Len(d) = 9 /\ CalibrateWith(d)) =>
              /\ historical_pattern' = d
              /\ TargetUsers(historical_pattern', 0) = d[1]
              /\ cafe_capacity' = (SeqMax(d) * 6) \div 5
              /\ d = SpecExample =>
                    /\ TargetUsers(historical_pattern', 0) = 10
                    /\ cafe_capacity' = 108]_vars

\* the simulation calibrated with [10,20,...,90]
C5_Witness ==
    historical_pattern = SpecExample /\ cafe_capacity = 108

C7_RunEndsAtDuration ==
    frame = Frames => time_minutes = duration_minutes

\* C8: across any step the old session log is a prefix of the new one, and the
\* number of new records is the number of clients removed from the active
\* collection.
C8_LogAppendOnly ==
    [][/\ IsPrefix(connection_log, connection_log')
       /\ Len(connection_log') - Len(connection_log)
              = (Len(users) + (admitted' - admitted)) - Len(users')]_vars

\* two departures were logged by two different steps
C8_Witness ==
    /\ Len(connection_log) = 2
    /\ connection_log[1].departure_time < connection_log[2].departure_time

\* C9: whatever the time, the population, the noise and the client, both
\* probabilities lie in [0, 1].
C9_ProbabilitiesInUnitInterval ==
    probe.fn # "none" => (0 <= probe.result /\ probe.result <= ProbOne)

\* the arrival probability for a deficit of 10000 and a large noise draw
C9_Witness ==
    /\ probe.fn = "arrival"
    /\ TargetUsers(probe.pattern, probe.t) - probe.nUsers = 10000
    /\ probe.noise = 2 * ProbOne
    /\ probe.result = ProbOne

\* C10: every active client is inside [0,10] x [0,10] with a signal strength
\* in [0.1, 1.0].
C10_PositionAndSignalInRange ==
    \A i \in 1..Len(users) :
        /\ 0 <= users[i].x /\ users[i].x <= PosMax
        /\ 0 <= users[i].y /\ users[i].y <= PosMax
        /\ SigMin <= users[i].signal_strength
        /\ users[i].signal_strength <= SigOne

\* a mobile client stopped by the wall at y = 10 and by the wall at x = 0
C10_Witness ==
    \E i \in 1..Len(users) :
        /\ users[i].movement_pattern = "mobile"
        /\ users[i].y = PosMax
        /\ users[i].x = 0

\* C11: simulated time starts at 0, every step() (an animate call for a
\* frame after the first) increases it by exactly 1, and nothing else
\* changes it.
C11_TimeAdvancesByOne ==
    /\ time_minutes = 0
    /\ [][IF pc = "running" /\ frame > 0 /\ frame' = frame + 1
          THEN time_minutes' = time_minutes + 1
          ELSE time_minutes' = time_minutes]_vars

\* two steps were taken and the validation has run
C11_Witness ==
    pc = "validated" /\ time_minutes = 2 /\ frame = 3

\* C17: the clients admitted so far are the active ones plus the logged ones.
C17_Conservation ==
    admitted = Len(users) + Len(connection_log)

\* of two admitted clients one is active and one is in the log
C17_Witness ==
    admitted = 2 /\ Len(users) = 1 /\ Len(connection_log) = 1

\* C18, as stated: the occupancy rebuilt from the log at a boundary i never
\* exceeds the cafe capacity, whatever the capacity.
C18_LogOccupancyWithinAnyCapacity ==
    pc = "finished" =>
        \A i \in 0..time_minutes :
            ActiveAtTime(connection_log, i) <= cafe_capacity

\* C18, amended: when the capacity is not negative, the number of records
\* with arrival_time <= i <= departure_time never exceeds it, for every
\* minute i.
C18_LogOccupancyWithinCapacity ==
    cafe_capacity >= 0 =>
        \A i \in 0..time_minutes :
            ActiveAtTime(connection_log, i) <= cafe_capacity

\* minute 0 is counted for two sessions, one of which ended in minute 0 and
\* one later, in a cafe of capacity 2
C18_Witness ==
    /\ cafe_capacity = 2
    /\ ActiveAtTime(connection_log, 0) = 2
    /\ \E k \in 1..Len(connection_log) : connection_log[k].departure_time = 0
    /\ \E k \in 1..Len(connection_log) : connection_log[k].departure_time = 1

\* the arrival probability that follows from a target, a population, a
\* multiplier in tenths and a noise draw
ArrivalFrom(target, nUsers, tenths, noise) ==
    LET deficit == target - nUsers
        base == IF deficit > 0 THEN Min(80000, deficit * 10000) ELSE 5000
    IN  Max(0, Min(ProbOne, (base * tenths) \div 10 + noise))

\* the departure probability that follows from a target and a population
DepartureFrom(target, nUsers, t, user) ==
    LET surplus == nUsers - target
        base == IF t - user.arrival_time > user.session_duration
                THEN 40000 ELSE 1000
        adjusted == IF surplus > 0 THEN base + Min(30000, surplus * 5000)
                    ELSE base
    IN  Min(ProbOne, adjusted + (SigOne - user.signal_strength) * 5)

\* the pattern entry at interval index min(7, t div 15): entry 7 from
\* minute 105 on
CappedTarget(pattern, t) ==
    IF t >= 105 THEN pattern[8] ELSE pattern[(t \div 15) + 1]

\* C12: both probability functions work from the pattern entry at index
\* min(7, t div 15), which is entry 7 for every t >= 105, while the
\* calibrated capacity comes from the maximum over the whole pattern.
C12_TargetReadAtCappedIndex ==
    /\ probe.fn = "arrival" =>
           \E tenths \in {7, 10, 15} :
               probe.result = ArrivalFrom(CappedTarget(probe.pattern, probe.t),
                                          probe.nUsers, tenths, probe.noise)
    /\ probe.fn = "departure" =>
           probe.result = DepartureFrom(CappedTarget(probe.pattern, probe.t),
                                        probe.nUsers, probe.t, probe.user)
    /\ \A k \in 1..Len(historical_pattern) :
           cafe_capacity >= (historical_pattern[k] * 6) \div 5
    /\ \E k \in 9..Len(historical_pattern) :
           cafe_capacity = (historical_pattern[k] * 6) \div 5

\* a departure at minute 256 under the 17-point pattern, with 35 users
\* against the target 32 of interval 7 (interval 8 holds 39)
C12_Witness ==
    /\ probe.fn = "departure"
    /\ probe.t = 256 /\ probe.pattern = DefaultPattern /\ probe.nUsers = 35
    /\ probe.user.session_duration = 45 /\ probe.user.arrival_time = 100
    /\ probe.result >= 40000 + 15000

\* multiplier of the base arrival probability, in tenths
PeakTenths(t) ==
    IF t \in 60..119 THEN 15 ELSE IF t \in 120..179 THEN 7 ELSE 10

\* C16: the base arrival probability is multiplied by 1.5 exactly for t in
\* 60..119, by 0.7 exactly for t in 120..179, and by nothing otherwise.
C16_PeakMultiplierByHour ==
    probe.fn = "arrival" =>
        probe.result = ArrivalFrom(TargetUsers(probe.pattern, probe.t),
                                   probe.nUsers, PeakTenths(probe.t),
                                   probe.noise)

\* the last minute of the 0.7 window, base 0.8 and no noise: 0.56
C16_Witness ==
    /\ probe.fn = "arrival" /\ probe.t = 179 /\ probe.noise = 0
    /\ probe.result = 56000

\* C19: departure_probability is at least 0.01 and at most 0.745, so it is
\* strictly between 0 and 1 for every client, time and population.
C19_DepartureStrictlyBetween ==
    probe.fn = "departure" =>
        /\ 1000 <= probe.result /\ probe.result <= 40000 + 30000 + 4500
        /\ 0 < probe.result /\ probe.result < ProbOne

\* an overdue client in a cafe 20000 over the target
C19_Witness ==
    /\ probe.fn = "departure"
    /\ probe.nUsers - TargetUsers(probe.pattern, probe.t) = 20000
    /\ probe.result > 70000

\* C15: move() on a stationary user, or on a mobile user whose walk was
\* not triggered, leaves x, y and signal_strength as they were; move() never
\* changes movement_pattern, user_id, arrival_time or session_duration.
C15_MoveLeavesTheRestAlone ==
    probe.fn = "move" =>
        /\ (probe.user.movement_pattern = "stationary" \/ ~probe.triggered) =>
               /\ probe.result.x = probe.user.x
               /\ probe.result.y = probe.user.y
               /\ probe.result.signal_strength = probe.user.signal_strength
        /\ probe.result.movement_pattern = probe.user.movement_pattern
        /\ probe.result.user_id = probe.user.user_id
        /\ probe.result.arrival_time = probe.user.arrival_time
        /\ probe.result.session_duration = probe.user.session_duration

\* a mobile user in the middle of the cafe whose walk was not triggered,
\* with draws that would have moved it
C15_Witness ==
    /\ probe.fn = "move"
    /\ probe.user.movement_pattern = "mobile" /\ ~probe.triggered
    /\ probe.user.x = 50 /\ probe.dx = 1 /\ probe.dy = -1
    /\ probe.result = probe.user

\* C13: within one step() every departure probability is evaluated against
\* the same population, the one after the admissions of the step and before
\* its removals; a user marked earlier does not change the surplus seen later.
C13_SamePopulationForEveryDeparture ==
    probe.fn = "step" =>
        /\ Len(probe.evals) = Len(probe.moved)
        /\ Len(probe.moved) = Len(probe.added)
        /\ \A i \in 1..Len(probe.evals) :
               /\ probe.evals[i].current_users = Len(probe.added)
               /\ probe.evals[i].p =
                      DepartureFrom(TargetUsers(historical_pattern, probe.t),
                                    Len(probe.added), probe.t, probe.moved[i])

\* two users above a target of 0, the first marked and the second kept
C13_Witness ==
    /\ probe.fn = "step"
    /\ Len(probe.moved) = 2 /\ probe.marks = {1}
    /\ TargetUsers(historical_pattern, probe.t) = 0
    /\ probe.evals[2].current_users = 2
    /\ Len(users) = 1

\* C14: a step admits, then moves, then removes, then advances the clock:
\* admissions extend the population found, by no more than the room it
\* left; users admitted at t are moved and evaluated in the same step; the
\* records written carry departure_time t, the time before the increment.
C14_PhasesInOrder ==
    probe.fn = "step" =>
        LET found == Len(probe.before)
            n == Cardinality(probe.marks)
        IN  /\ time_minutes = probe.t + 1
            /\ IsPrefix(probe.before, probe.added)
            /\ Len(probe.added) - found <= Max(0, cafe_capacity - found)
            /\ \A k \in (found + 1)..Len(probe.added) :
                   probe.added[k].arrival_time = probe.t
            /\ Len(probe.moved) = Len(probe.added)
            /\ \A k \in 1..Len(probe.added) :
                   /\ probe.moved[k].user_id = probe.added[k].user_id
                   /\ probe.moved[k].arrival_time = probe.added[k].arrival_time
                   /\ Abs(probe.moved[k].x - probe.added[k].x) <= StepLen
                   /\ Abs(probe.moved[k].y - probe.added[k].y) <= StepLen
                   /\ probe.moved[k].signal_strength =
                          CalculateSignalStrength(probe.moved[k].x,
                                                  probe.moved[k].y)
            /\ DOMAIN probe.evals = 1..Len(probe.moved)
            /\ probe.marks \subseteq 1..Len(probe.moved)
            /\ Len(users) = Len(probe.moved) - n
            /\ Len(connection_log) >= n
            /\ \A k \in (Len(connection_log) - n + 1)..Len(connection_log) :
                   connection_log[k].departure_time = probe.t

\* a user admitted in minute 1 walks and leaves in the same step: the record
\* has arrival_time = departure_time = 1 and the signal of the new position
C14_Witness ==
    /\ probe.fn = "step" /\ probe.t = 1
    /\ probe.before = <<>> /\ Len(probe.added) = 1 /\ probe.marks = {1}
    /\ probe.moved[1].signal_strength # probe.added[1].signal_strength
    /\ connection_log # <<>>
    /\ LET r == connection_log[Len(connection_log)]
       IN  /\ r.arrival_time = 1 /\ r.departure_time = 1 /\ r.duration = 0
           /\ r.avg_signal_strength = probe.moved[1].signal_strength

\* C20: the pattern in force always has more than 7 entries, so the capped
\* index min(7, t div 15) is below its length at the current minute and at
\* every later one, and the target is a pattern entry, never the fallback 20.
C20_FallbackNeverUsed ==
    /\ Len(historical_pattern) \in {9, 17}
    /\ \A t \in {time_minutes, 104, 105, 119, 120, 256} :
           /\ Min(7, t \div 15) < Len(historical_pattern)
           /\ TargetUsers(historical_pattern, t) =
                  historical_pattern[Min(7, t \div 15) + 1]

\* a run under a calibrated 9-point pattern that has admitted a user
C20_Witness ==
    /\ Len(historical_pattern) = 9
    /\ time_minutes >= 1 /\ users # <<>>
    /\ TargetUsers(historical_pattern, 256) = 1

====
